---------------------------- MODULE Spec2Model ----------------------------
(***************************************************************************)
(* State-machine model of src/prometheus.cpp: the Prometheus.Exposer shard *)
(* and the metric shards Prometheus.Increment, Prometheus.Gauge and        *)
(* Prometheus.Histogram, together with the parts of the metrics engine     *)
(* (registry, families, points) and of the host (the reference-counted     *)
(* variable "Prometheus.Exposer") that the shards call into.               *)
(*                                                                         *)
(* Doubles are modelled as integers (hundredths), so 0.05 is 5 and 2.35 is *)
(* 235; sums of such values are exact in the model.                        *)
(*                                                                         *)
(* Every handler is a sequence of steps ordered by a program counter, so   *)
(* that handlers of different shards interleave; a handler run without     *)
(* interruption is one of the interleavings.                               *)
(***************************************************************************)
EXTENDS Integers, Sequences, FiniteSets, Bags, TLC

VARIABLES
  exposer,     \* [Exposers -> BOOLEAN]: Exposer::exposer is engaged (listening)
  registry,    \* [Exposers -> RegIds \cup {0}]: Exposer::registry, 0 is null
  counters,    \* [Exposers -> [Names -> RegIds \cup {0}]]: name -> Family<Counter>&
  gauges,      \* [Exposers -> [Names -> RegIds \cup {0}]]: name -> Family<Gauge>&
  histograms,  \* [Exposers -> [Names -> RegIds \cup {0}]]: name -> Family<Histogram>&
  endpoint,    \* [Exposers -> Endpoints]: Exposer::endpoint
  self,        \* [Exposers -> BOOLEAN]: Exposer::self is not null
  epc,         \* [Exposers -> {"cold", "listening", "draining", "stopping"}]
  eerr,        \* [Exposers -> outcome of the Exposer's last warmup]
  attached,    \* [Exposers -> RegIds \cup {0}]: the registry the listener collects
  scrape,      \* [Exposers -> the scrape request the listener is serving]
  var,         \* the host variable "Prometheus.Exposer"
  nextReg,     \* the next registry to be allocated by make_shared
  liveRegs,    \* the registries that have not been destroyed
  families,    \* the families registered in the live registries
  points,      \* the points of the live families, with their state
  log,         \* history: what has been applied to each point
  kind,        \* [Shards -> Kinds]: which struct the shard is
  name,        \* [Shards -> Names]: Base::_name
  label,       \* [Shards -> LabelNames]: Base::_label
  value,       \* [Shards -> LabelValues]: Base::_value
  buckets,     \* [Shards -> Seq(Int)]: Base::_buckets
  expo,        \* [Shards -> BOOLEAN]: Base::expo is not null
  handle,      \* [Shards -> point]: _counter / _gauge / _histogram
  ex,          \* [Shards -> Exposers \cup {"none"}]: the local Exposer *e
  fam,         \* [Shards -> family]: the local reference counter/gauge/histogram
  tmp,         \* [Shards -> Int]: the value loaded by a running Increment
  arg,         \* [Shards -> Int]: the input of the running activate
  pc,          \* [Shards -> step of the running handler]
  warmedIn,    \* history: the registry the Exposer held when the shard was warmed
  err,         \* [Shards -> outcome of the shard's last handler]
  scheduling,  \* "cooperative": warmups and cleanups run one at a time; "threads"
  present      \* the Exposer shards the program is composed of

vars == <<exposer, registry, counters, gauges, histograms, endpoint, self, epc,
          eerr, attached, scrape, var, nextReg, liveRegs, families, points, log, kind, name, label,
          value, buckets, expo, handle, ex, fam, tmp, arg, pc, warmedIn, err,
          scheduling, present>>

listenerVars == <<eerr, attached, scrape>>
exposerVars == <<exposer, registry, counters, gauges, histograms, endpoint, self, epc,
                 listenerVars>>
engineVars == <<nextReg, liveRegs, families, points, log>>
paramVars == <<kind, name, label, value, buckets, scheduling, present>>
shardVars == <<expo, handle, ex, fam, tmp, arg, pc, warmedIn, err>>

(***************************************************************************)
(* Bounds of the model.                                                    *)
(***************************************************************************)
MaxRegistries == 2
MaxTotal == 3
MaxObservations == 3

Exposers == {"e1", "e2"}
Shards == {"s1", "s2"}
Names == {"m", "n"}
Kinds == {"Counter", "Gauge", "Histogram"}
LabelNames == {"", "l"}
LabelValues == {"a", "b"}
Endpoints == {"127.0.0.1:9090"}
RegIds == 1..MaxRegistries

NoFamily == [reg |-> 0, kind |-> "", name |-> ""]
NoPoint == [reg |-> 0, kind |-> "", name |-> "", labels |-> {}]

Family(r, k, n) == [reg |-> r, kind |-> k, name |-> n]
Point(f, ls) == [reg |-> f.reg, kind |-> f.kind, name |-> f.name, labels |-> ls]
FamilyOf(p) == [reg |-> p.reg, kind |-> p.kind, name |-> p.name]


(***************************************************************************)
(* The host variable "Prometheus.Exposer" (Core::referenceVariable and     *)
(* Core::releaseVariable): a reference-counted slot, created empty by its  *)
(* first reference and destroyed by its last release.                      *)
(***************************************************************************)
EmptyVar == [valueType |-> "None", objectValue |-> "none", refcount |-> 0]

referenceVariable(v) == [v EXCEPT !.refcount = @ + 1]

releaseVariable(v) == IF v.refcount <= 1 THEN EmptyVar ELSE [v EXCEPT !.refcount = @ - 1]

(***************************************************************************)
(* The metrics engine the shards call into.                                *)
(***************************************************************************)
\* LabelSet: a set of key -> value pairs, equal irrespective of insertion order.
LabelSets == {{}} \cup {{<<k, v>>} : k \in LabelNames \ {""}, v \in LabelValues}

\* Registry.Register: the name is bound to another kind in this registry.
KindConflict(r, k, n) == \E f \in families : f.reg = r /\ f.name = n /\ f.kind # k

\* Registry.Register: the families after a successful registration (create or get).
Register(r, k, n) == families \cup {Family(r, k, n)}

\* Histogram boundaries must be non-empty and strictly ascending.
ValidBoundaries(b) == Len(b) > 0 /\ \A i \in 1..(Len(b) - 1) : b[i] < b[i + 1]

\* A new point, at its zero value; instance numbers the points constructed for
\* one LabelSet of one series.
NewPoint(k, b) ==
  IF k = "Histogram"
    THEN [instance |-> 1, val |-> 0, bounds |-> b,
          counts |-> [i \in 1..(Len(b) + 1) |-> 0], sum |-> 0]
    ELSE [instance |-> 1, val |-> 0, bounds |-> <<>>, counts |-> <<>>, sum |-> 0]

\* History of a point: the Buckets parameter of the shard that had it constructed,
\* and what has been applied to it since.
NewLog(requested) ==
  [requested |-> requested, applied |-> 0, sets |-> {}, obs |-> EmptyBag]

\* LabeledSeries.GetOrCreate fails: a new Histogram point with bad boundaries.
AddFails(f, ls, b) ==
  Point(f, ls) \notin DOMAIN points /\ f.kind = "Histogram" /\ ~ValidBoundaries(b)

\* Mutant of GetOrCreate: a point is constructed and stored on every call.
GetOrCreateAlways(f, ls, b) ==
  IF Point(f, ls) \in DOMAIN points
    THEN [points EXCEPT ![Point(f, ls)] =
            [NewPoint(f.kind, b) EXCEPT !.instance = points[Point(f, ls)].instance + 1]]
    ELSE (Point(f, ls) :> NewPoint(f.kind, b)) @@ points

\* LabeledSeries.GetOrCreate: the points after the call (the existing point is kept).
GetOrCreate(f, ls, b) ==
  IF Point(f, ls) \in DOMAIN points THEN points ELSE (Point(f, ls) :> NewPoint(f.kind, b)) @@ points

GetOrCreateLog(f, ls, requested) ==
  IF Point(f, ls) \in DOMAIN log THEN log ELSE (Point(f, ls) :> NewLog(requested)) @@ log

\* Histogram.Observe: the bucket an observation falls in (the first boundary >= v,
\* or the overflow bucket).
BucketIndex(b, v) ==
  IF \E i \in 1..Len(b) : b[i] >= v
    THEN CHOOSE i \in 1..Len(b) : b[i] >= v /\ \A j \in 1..(i - 1) : b[j] < v
    ELSE Len(b) + 1

Observe(st, v) ==
  [st EXCEPT !.counts[BucketIndex(st.bounds, v)] = @ + 1, !.sum = @ + v]

RECURSIVE SumSeq(_, _)
SumSeq(q, n) == IF n = 0 THEN 0 ELSE q[n] + SumSeq(q, n - 1)

\* The exported (cumulative) count of bucket i; bucket Len(bounds)+1 is +Inf.
CumulativeCount(st, i) == SumSeq(st.counts, i)

\* The exported sample count of a histogram point.
SampleCount(st) == SumSeq(st.counts, Len(st.counts))

\* Destroying a registry destroys its families and their points.
DropRegistry(fn, r) == [p \in {q \in DOMAIN fn : q.reg # r} |-> fn[p]]

\* No handler has crashed the process.
Running == \A s \in Shards : pc[s] # "crashed"

\* No warmup or cleanup is under way.
Quiet ==
  /\ \A s \in Shards : pc[s] \in {"cold", "warm", "failed", "cas"}
  /\ \A e \in Exposers : epc[e] \notin {"draining", "stopping"}

\* A warmup or cleanup may start: the host runs the warmups and cleanups of the
\* shards of a mesh one after the other; shards on threads of their own are not
\* held back.
HandlerMayStart == scheduling = "threads" \/ Quiet

(***************************************************************************)
(* Prometheus.Exposer                                                      *)
(***************************************************************************)
\* exposer.emplace(endpoint) cannot bind: another listener holds the endpoint.
BindFails(e) == \E o \in Exposers \ {e} : exposer[o] /\ endpoint[o] = endpoint[e]

\* Mutant of RegisterCollectable: the registry is never attached to the listener.
RegisterCollectableNone(r) == 0

\* exposer->RegisterCollectable(registry): the registry the listener collects.
RegisterCollectable(r) == r

\* The listener serves no request.
NoScrape == [phase |-> "idle", reg |-> 0, existing |-> {}, todo |-> {}, snap |-> <<>>]

\* Mutant of ExposerWarmup: the registry is made and the variable published
\* before the listener is constructed.
ExposerWarmupBindsLast(e) ==
  /\ Running
  /\ HandlerMayStart
  /\ e \in present
  /\ epc[e] = "cold"
  /\ nextReg <= MaxRegistries
  /\ registry' = [registry EXCEPT ![e] = nextReg]
  /\ nextReg' = nextReg + 1
  /\ liveRegs' = liveRegs \cup {nextReg}
  /\ self' = [self EXCEPT ![e] = TRUE]
  /\ var' = [referenceVariable(var) EXCEPT !.valueType = "Object", !.objectValue = e]
  /\ IF BindFails(e)
       THEN /\ eerr' = [eerr EXCEPT ![e] = "BindError"]
            /\ UNCHANGED <<exposer, attached, epc>>
       ELSE /\ eerr' = [eerr EXCEPT ![e] = "none"]
            /\ exposer' = [exposer EXCEPT ![e] = TRUE]
            /\ attached' = [attached EXCEPT ![e] = RegisterCollectable(nextReg)]
            /\ epc' = [epc EXCEPT ![e] = "listening"]
  /\ UNCHANGED <<counters, gauges, histograms, endpoint, scrape, families, points,
                 log, paramVars, shardVars>>

\* Exposer::warmup.  The construction of the listener is its first statement:
\* when it throws, nothing else of the warmup has run.
ExposerWarmup(e) ==
  /\ Running
  /\ HandlerMayStart
  /\ e \in present
  /\ epc[e] = "cold"
  /\ nextReg <= MaxRegistries
  /\ IF BindFails(e)
       THEN /\ eerr' = [eerr EXCEPT ![e] = "BindError"]
            /\ UNCHANGED <<exposer, registry, self, epc, attached, var, nextReg,
                           liveRegs>>
       ELSE /\ eerr' = [eerr EXCEPT ![e] = "none"]
            /\ exposer' = [exposer EXCEPT ![e] = TRUE]
            /\ registry' = [registry EXCEPT ![e] = nextReg]
            /\ nextReg' = nextReg + 1
            /\ liveRegs' = liveRegs \cup {nextReg}
            /\ self' = [self EXCEPT ![e] = TRUE]
            /\ var' = [referenceVariable(var) EXCEPT !.valueType = "Object",
                                                    !.objectValue = e]
            /\ attached' = [attached EXCEPT ![e] = RegisterCollectable(nextReg)]
            /\ epc' = [epc EXCEPT ![e] = "listening"]
  /\ UNCHANGED <<counters, gauges, histograms, endpoint, scrape, families, points,
                 log, paramVars, shardVars>>

\* Mutant of ExposerDrain: registry.reset() runs before exposer.reset().
ExposerDrainReleasesFirst(e) ==
  /\ Running
  /\ HandlerMayStart
  /\ e \in present
  /\ epc[e] \in {"cold", "listening"}
  /\ epc' = [epc EXCEPT ![e] = "draining"]
  /\ registry' = [registry EXCEPT ![e] = 0]
  /\ liveRegs' = liveRegs \ {registry[e]}
  /\ families' = {f \in families : f.reg # registry[e]}
  /\ points' = DropRegistry(points, registry[e])
  /\ log' = DropRegistry(log, registry[e])
  /\ UNCHANGED <<exposer, counters, gauges, histograms, endpoint, self, listenerVars,
                 var, nextReg, paramVars, shardVars>>

\* Exposer::cleanup calls exposer.reset(): the listener takes no new request and
\* lets the requests it is serving complete.
ExposerDrain(e) ==
  /\ Running
  /\ HandlerMayStart
  /\ e \in present
  /\ epc[e] \in {"cold", "listening"}
  /\ epc' = [epc EXCEPT ![e] = "draining"]
  /\ UNCHANGED <<exposer, registry, counters, gauges, histograms, endpoint, self,
                 listenerVars, var, engineVars, paramVars, shardVars>>

\* Mutant of ExposerStop: the cleanup does not destroy the listener.
ExposerStopSkipsReset(e) ==
  /\ Running
  /\ epc[e] = "draining"
  /\ scrape[e].phase = "idle"
  /\ epc' = [epc EXCEPT ![e] = "stopping"]
  /\ UNCHANGED <<exposer, registry, counters, gauges, histograms, endpoint, self,
                 listenerVars, var, engineVars, paramVars, shardVars>>

\* Mutant of ExposerStop: the listener is closed at once and drops the request
\* it is serving.
ExposerStopAbrupt(e) ==
  /\ Running
  /\ epc[e] = "draining"
  /\ exposer' = [exposer EXCEPT ![e] = FALSE]
  /\ attached' = [attached EXCEPT ![e] = 0]
  /\ scrape' = [scrape EXCEPT ![e] = NoScrape]
  /\ epc' = [epc EXCEPT ![e] = "stopping"]
  /\ UNCHANGED <<registry, counters, gauges, histograms, endpoint, self, eerr, var,
                 engineVars, paramVars, shardVars>>

\* exposer.reset() returns: every request has completed, the listening socket is
\* closed and the listener, with its list of collectables, is destroyed.
ExposerStop(e) ==
  /\ Running
  /\ epc[e] = "draining"
  /\ scrape[e].phase = "idle"
  /\ exposer' = [exposer EXCEPT ![e] = FALSE]
  /\ attached' = [attached EXCEPT ![e] = 0]
  /\ epc' = [epc EXCEPT ![e] = "stopping"]
  /\ UNCHANGED <<registry, counters, gauges, histograms, endpoint, self, eerr, scrape,
                 var, engineVars, paramVars, shardVars>>

\* Exposer::cleanup, the rest: registry.reset() and the release of self.
ExposerRelease(e) ==
  /\ Running
  /\ epc[e] = "stopping"
  /\ registry' = [registry EXCEPT ![e] = 0]
  /\ liveRegs' = liveRegs \ {registry[e]}
  /\ families' = {f \in families : f.reg # registry[e]}
  /\ points' = DropRegistry(points, registry[e])
  /\ log' = DropRegistry(log, registry[e])
  /\ var' = IF self[e] THEN releaseVariable(var) ELSE var
  /\ self' = [self EXCEPT ![e] = FALSE]
  /\ epc' = [epc EXCEPT ![e] = "cold"]
  /\ UNCHANGED <<exposer, counters, gauges, histograms, endpoint, listenerVars,
                 nextReg, paramVars, shardVars>>

(***************************************************************************)
(* The listener: scrape requests                                           *)
(***************************************************************************)
\* What a scrape reports of point p: the point's state, copied in one step.
\* at and busy are history: the operations applied to the point so far, and
\* whether an Increment was between its load and its swap.
Sample(p) ==
  IF p \in DOMAIN points
    THEN [freed |-> FALSE, val |-> points[p].val, bounds |-> points[p].bounds,
          counts |-> points[p].counts, sum |-> points[p].sum, at |-> log[p],
          busy |-> \E s \in Shards : pc[s] = "cas" /\ handle[s] = p]
    ELSE [freed |-> TRUE, val |-> 0, bounds |-> <<>>, counts |-> <<>>, sum |-> 0,
          at |-> NewLog(<<>>), busy |-> FALSE]

\* The listener accepts a scrape request: CollectAll over the attached registry.
ScrapeAccept(e) ==
  /\ Running
  /\ exposer[e]
  /\ epc[e] # "draining"
  /\ scrape[e].phase = "idle"
  /\ scrape' = [scrape EXCEPT ![e] =
       [phase |-> "collecting", reg |-> attached[e],
        existing |-> {p \in DOMAIN points : p.reg = registry[e]},
        todo |-> {p \in DOMAIN points : p.reg = attached[e]},
        snap |-> <<>>]]
  /\ UNCHANGED <<exposer, registry, counters, gauges, histograms, endpoint, self, epc,
                 eerr, attached, var, engineVars, paramVars, shardVars>>

\* The scrape copies the state of one more point.
ScrapeRead(e) ==
  /\ Running
  /\ scrape[e].phase = "collecting"
  /\ \E p \in scrape[e].todo :
       scrape' = [scrape EXCEPT ![e].todo = @ \ {p},
                                ![e].snap = (p :> Sample(p)) @@ @]
  /\ UNCHANGED <<exposer, registry, counters, gauges, histograms, endpoint, self, epc,
                 eerr, attached, var, engineVars, paramVars, shardVars>>

\* Every point has been copied: the response is sent.
ScrapeRespond(e) ==
  /\ Running
  /\ scrape[e].phase = "collecting"
  /\ scrape[e].todo = {}
  /\ scrape' = [scrape EXCEPT ![e].phase = "responded"]
  /\ UNCHANGED <<exposer, registry, counters, gauges, histograms, endpoint, self, epc,
                 eerr, attached, var, engineVars, paramVars, shardVars>>

\* The request is over.
ScrapeDone(e) ==
  /\ Running
  /\ scrape[e].phase = "responded"
  /\ scrape' = [scrape EXCEPT ![e] = NoScrape]
  /\ UNCHANGED <<exposer, registry, counters, gauges, histograms, endpoint, self, epc,
                 eerr, attached, var, engineVars, paramVars, shardVars>>

(***************************************************************************)
(* The metric shards: Base, Increment, Gauge, Histogram                    *)
(***************************************************************************)
\* Mutant of LabelsRegistered: the pair is added even when _label is empty.
LabelsRegisteredAlways(s) == {<<label[s], value[s]>>}

\* The LabelSet a warmup passes to Add on a family it has just registered:
\* {} when _label is empty, else {_label: _value}.
LabelsRegistered(s) == IF label[s] = "" THEN {} ELSE {<<label[s], value[s]>>}

\* Mutant of LabelsReused: the pair is added even when _label is empty.
LabelsReusedAlways(s) == {<<label[s], value[s]>>}

\* The LabelSet a warmup passes to Add on a family it found in the map.
LabelsReused(s) == IF label[s] = "" THEN {} ELSE {<<label[s], value[s]>>}

\* The LabelSet of the Add call shard s is about to make.
LabelSetOf(s) == IF pc[s] = "addReused" THEN LabelsReused(s) ELSE LabelsRegistered(s)

\* The name -> family map of exposer e that holds the families of kind k.
Cache(k, e) ==
  CASE k = "Counter" -> counters[e]
    [] k = "Gauge" -> gauges[e]
    [] k = "Histogram" -> histograms[e]

\* The map whose count(_name) decides between registering and reusing.
CheckedCache(k, e) ==
  CASE k = "Counter" -> counters[e]
    [] k = "Gauge" -> counters[e]
    [] k = "Histogram" -> histograms[e]

\* Base::warmup, and the read of the Exposer pointer that follows it.
BaseWarmup(s) ==
  /\ Running
  /\ HandlerMayStart
  /\ pc[s] = "cold"
  /\ var' = referenceVariable(var)
  /\ expo' = [expo EXCEPT ![s] = TRUE]
  /\ IF var.valueType # "Object"
       THEN /\ err' = [err EXCEPT ![s] = "WarmupError"]
            /\ pc' = [pc EXCEPT ![s] = "failed"]
            /\ UNCHANGED ex
       ELSE /\ err' = [err EXCEPT ![s] = "none"]
            /\ pc' = [pc EXCEPT ![s] = "lookup"]
            /\ ex' = [ex EXCEPT ![s] = var.objectValue]
  /\ UNCHANGED <<exposerVars, engineVars, paramVars, handle, fam, tmp, arg, warmedIn>>

\* if (e->counters.count(_name) == 0)
Lookup(s) ==
  /\ Running
  /\ pc[s] = "lookup"
  /\ pc' = [pc EXCEPT ![s] =
              IF CheckedCache(kind[s], ex[s])[name[s]] = 0 THEN "create" ELSE "reuse"]
  /\ UNCHANGED <<exposerVars, var, engineVars, paramVars, expo, handle, ex, fam,
                 tmp, arg, warmedIn, err>>

\* map.emplace(_name, family): an existing entry is kept.
Emplace(map, e, n, r) == IF map[e][n] = 0 THEN [map EXCEPT ![e][n] = r] ELSE map

\* The emplace of shard s runs while another shard is at an access of the same
\* unordered_map (count, emplace or at): the map has no lock, so the two accesses
\* are a data race.
Races(s) ==
  \E t \in Shards \ {s} :
    /\ ex[t] = ex[s]
    /\ \/ pc[t] = "lookup" /\ kind[s] = (IF kind[t] = "Gauge" THEN "Counter" ELSE kind[t])
       \/ pc[t] \in {"create", "reuse"} /\ kind[s] = kind[t]

\* Build<Kind>().Name(_name).Register(*e->registry); e->map.emplace(_name, family).
\* An emplace that races with another access of the map may crash.
Create(s) ==
  /\ Running
  /\ pc[s] = "create"
  /\ LET e == ex[s]
         r == registry[e]
         k == kind[s]
         n == name[s]
     IN  IF r = 0
           THEN /\ pc' = [pc EXCEPT ![s] = "crashed"]
                /\ err' = [err EXCEPT ![s] = "NullRegistry"]
                /\ UNCHANGED <<families, counters, gauges, histograms, fam, ex>>
           ELSE IF KindConflict(r, k, n)
             THEN /\ pc' = [pc EXCEPT ![s] = "failed"]
                  /\ err' = [err EXCEPT ![s] = "KindConflict"]
                  /\ ex' = [ex EXCEPT ![s] = "none"]
                  /\ UNCHANGED <<families, counters, gauges, histograms, fam>>
             ELSE \/ /\ families' = Register(r, k, n)
                     /\ counters' = IF k = "Counter" THEN Emplace(counters, e, n, r)
                                                    ELSE counters
                     /\ gauges' = IF k = "Gauge" THEN Emplace(gauges, e, n, r) ELSE gauges
                     /\ histograms' = IF k = "Histogram" THEN Emplace(histograms, e, n, r)
                                                         ELSE histograms
                     /\ fam' = [fam EXCEPT ![s] = Family(r, k, n)]
                     /\ pc' = [pc EXCEPT ![s] = "addNew"]
                     /\ UNCHANGED <<ex, err>>
                  \/ /\ Races(s)
                     /\ families' = Register(r, k, n)
                     /\ pc' = [pc EXCEPT ![s] = "crashed"]
                     /\ err' = [err EXCEPT ![s] = "DataRace"]
                     /\ UNCHANGED <<counters, gauges, histograms, fam, ex>>
  /\ UNCHANGED <<exposer, registry, endpoint, self, epc, listenerVars, var, nextReg,
                 liveRegs, points, log, paramVars, expo, handle, tmp, arg, warmedIn>>

\* auto &family = e->map.at(_name)
Reuse(s) ==
  /\ Running
  /\ pc[s] = "reuse"
  /\ LET r == Cache(kind[s], ex[s])[name[s]]
     IN  IF r = 0
           THEN /\ pc' = [pc EXCEPT ![s] = "failed"]
                /\ err' = [err EXCEPT ![s] = "OutOfRange"]
                /\ ex' = [ex EXCEPT ![s] = "none"]
                /\ UNCHANGED fam
           ELSE /\ fam' = [fam EXCEPT ![s] = Family(r, kind[s], name[s])]
                /\ pc' = [pc EXCEPT ![s] = "addReused"]
                /\ UNCHANGED <<ex, err>>
  /\ UNCHANGED <<exposerVars, var, engineVars, paramVars, expo, handle, tmp, arg,
                 warmedIn>>

\* Mutant of BucketBoundaries: the copy loop stops one bucket short.
BucketBoundariesShort(s) == SubSeq(buckets[s], 1, Len(buckets[s]) - 1)

\* The boundaries a Histogram warmup passes to Add (the floats of _buckets, in order).
BucketBoundaries(s) == buckets[s]

\* _counter = family.Add(labels) (for a Histogram: Add(labels, boundaries)).  A
\* family of a destroyed registry is a dangling reference: the call crashes, or
\* returns a reference into the released memory.
Add(s) ==
  /\ Running
  /\ pc[s] \in {"addNew", "addReused"}
  /\ LET f == fam[s]
         ls == LabelSetOf(s)
         b == BucketBoundaries(s)
     IN  IF f.reg \notin liveRegs
           THEN /\ \E crash \in BOOLEAN :
                     IF crash
                       THEN /\ pc' = [pc EXCEPT ![s] = "crashed"]
                            /\ UNCHANGED <<handle, warmedIn>>
                       ELSE /\ pc' = [pc EXCEPT ![s] = "warm"]
                            /\ handle' = [handle EXCEPT ![s] = Point(f, ls)]
                            /\ warmedIn' = [warmedIn EXCEPT ![s] = registry[ex[s]]]
                /\ err' = [err EXCEPT ![s] = "DanglingFamily"]
                /\ UNCHANGED <<points, log>>
           ELSE IF AddFails(f, ls, b)
             THEN /\ pc' = [pc EXCEPT ![s] = "failed"]
                  /\ err' = [err EXCEPT ![s] = "ConfigurationError"]
                  /\ UNCHANGED <<points, log, handle, warmedIn>>
             ELSE /\ points' = GetOrCreate(f, ls, b)
                  /\ log' = GetOrCreateLog(f, ls, buckets[s])
                  /\ handle' = [handle EXCEPT ![s] = Point(f, ls)]
                  /\ warmedIn' = [warmedIn EXCEPT ![s] = registry[ex[s]]]
                  /\ pc' = [pc EXCEPT ![s] = "warm"]
                  /\ err' = [err EXCEPT ![s] = "none"]
  /\ fam' = [fam EXCEPT ![s] = NoFamily]
  /\ ex' = [ex EXCEPT ![s] = "none"]
  /\ UNCHANGED <<exposerVars, var, nextReg, liveRegs, families, paramVars, expo,
                 tmp, arg>>

\* Mutant of Cleanup: the reference is released but expo is not set to nullptr.
CleanupKeepsExpo(s) ==
  /\ Running
  /\ HandlerMayStart
  /\ pc[s] \in {"cold", "warm", "failed"}
  /\ var' = IF expo[s] THEN releaseVariable(var) ELSE var
  /\ handle' = [handle EXCEPT ![s] = NoPoint]
  /\ pc' = [pc EXCEPT ![s] = "cold"]
  /\ err' = [err EXCEPT ![s] = "none"]
  /\ warmedIn' = [warmedIn EXCEPT ![s] = 0]
  /\ UNCHANGED <<exposerVars, engineVars, paramVars, expo, ex, fam, tmp, arg>>

\* Base::cleanup and the reset of the point reference.
Cleanup(s) ==
  /\ Running
  /\ HandlerMayStart
  /\ pc[s] \in {"cold", "warm", "failed"}
  /\ var' = IF expo[s] THEN releaseVariable(var) ELSE var
  /\ expo' = [expo EXCEPT ![s] = FALSE]
  /\ handle' = [handle EXCEPT ![s] = NoPoint]
  /\ pc' = [pc EXCEPT ![s] = "cold"]
  /\ err' = [err EXCEPT ![s] = "none"]
  /\ warmedIn' = [warmedIn EXCEPT ![s] = 0]
  /\ UNCHANGED <<exposerVars, engineVars, paramVars, ex, fam, tmp, arg>>

\* A point reference into a destroyed registry.
Dangling(p) == p.reg \notin liveRegs

\* Mutant of IncrementAmount: Counter.Increment() called without its argument.
IncrementAmountDefault(input) == 1

\* The amount Increment::activate passes to Counter.Increment.
IncrementAmount(input) == input

\* Mutant of IncrementRejects: the check of the sign is missing.
IncrementRejectsNothing(input) == FALSE

\* Increment::activate rejects the input.
IncrementRejects(input) == input < 0

\* Increment::activate up to the load of the counter's value: the negative check,
\* then Counter.Increment(input), which adds by compare-and-swap.
IncrementActivate(s, input) ==
  /\ Running
  /\ pc[s] = "warm"
  /\ kind[s] = "Counter"
  /\ IF IncrementRejects(input)
       THEN /\ err' = [err EXCEPT ![s] = "ActivationError"]
            /\ UNCHANGED <<pc, tmp, arg, log>>
       ELSE IF Dangling(handle[s])
         THEN /\ err' = [err EXCEPT ![s] = "UseAfterFree"]
              /\ \E crash \in BOOLEAN :
                   pc' = [pc EXCEPT ![s] = IF crash THEN "crashed" ELSE "warm"]
              /\ UNCHANGED <<tmp, arg, log>>
         ELSE /\ log[handle[s]].applied + input <= MaxTotal
              /\ log' = [log EXCEPT ![handle[s]].applied = @ + input]
              /\ tmp' = [tmp EXCEPT ![s] = points[handle[s]].val]
              /\ arg' = [arg EXCEPT ![s] = IncrementAmount(input)]
              /\ pc' = [pc EXCEPT ![s] = "cas"]
              /\ err' = [err EXCEPT ![s] = "none"]
  /\ UNCHANGED <<exposerVars, var, nextReg, liveRegs, families, points, paramVars,
                 expo, handle, ex, fam, warmedIn>>

\* Counter.Increment: compare_exchange(current, current + input), retried on failure.
CompareExchange(s) ==
  /\ Running
  /\ pc[s] = "cas"
  /\ IF Dangling(handle[s])
       THEN /\ err' = [err EXCEPT ![s] = "UseAfterFree"]
            /\ \E crash \in BOOLEAN :
                 pc' = [pc EXCEPT ![s] = IF crash THEN "crashed" ELSE "warm"]
            /\ tmp' = [tmp EXCEPT ![s] = 0]
            /\ arg' = [arg EXCEPT ![s] = 0]
            /\ UNCHANGED points
       ELSE IF points[handle[s]].val = tmp[s]
         THEN /\ points' = [points EXCEPT ![handle[s]].val = tmp[s] + arg[s]]
              /\ pc' = [pc EXCEPT ![s] = "warm"]
              /\ tmp' = [tmp EXCEPT ![s] = 0]
              /\ arg' = [arg EXCEPT ![s] = 0]
              /\ UNCHANGED err
         ELSE /\ tmp' = [tmp EXCEPT ![s] = points[handle[s]].val]
              /\ UNCHANGED <<points, pc, arg, err>>
  /\ UNCHANGED <<exposerVars, var, nextReg, liveRegs, families, log, paramVars,
                 expo, handle, ex, fam, warmedIn>>

\* Mutant of GaugeActivate: Gauge.Increment(input) is called in place of Set.
GaugeActivateIncrement(s, input) ==
  /\ Running
  /\ pc[s] = "warm"
  /\ kind[s] = "Gauge"
  /\ ~Dangling(handle[s])
  /\ points' = [points EXCEPT ![handle[s]].val = @ + input]
  /\ log' = [log EXCEPT ![handle[s]].sets = @ \cup {input}]
  /\ err' = [err EXCEPT ![s] = "none"]
  /\ UNCHANGED <<exposerVars, var, nextReg, liveRegs, families, paramVars,
                 expo, handle, ex, fam, tmp, arg, pc, warmedIn>>

\* Gauge::activate: Gauge.Set(input), an atomic store.
GaugeActivate(s, input) ==
  /\ Running
  /\ pc[s] = "warm"
  /\ kind[s] = "Gauge"
  /\ IF Dangling(handle[s])
       THEN /\ err' = [err EXCEPT ![s] = "UseAfterFree"]
            /\ \E crash \in BOOLEAN :
                 pc' = [pc EXCEPT ![s] = IF crash THEN "crashed" ELSE "warm"]
            /\ UNCHANGED <<points, log>>
       ELSE /\ points' = [points EXCEPT ![handle[s]].val = input]
            /\ log' = [log EXCEPT ![handle[s]].sets = @ \cup {input}]
            /\ err' = [err EXCEPT ![s] = "none"]
            /\ UNCHANGED pc
  /\ UNCHANGED <<exposerVars, var, nextReg, liveRegs, families, paramVars,
                 expo, handle, ex, fam, tmp, arg, warmedIn>>

\* Histogram::activate: Histogram.Observe(input).
HistogramActivate(s, input) ==
  /\ Running
  /\ pc[s] = "warm"
  /\ kind[s] = "Histogram"
  /\ IF Dangling(handle[s])
       THEN /\ err' = [err EXCEPT ![s] = "UseAfterFree"]
            /\ \E crash \in BOOLEAN :
                 pc' = [pc EXCEPT ![s] = IF crash THEN "crashed" ELSE "warm"]
            /\ UNCHANGED <<points, log>>
       ELSE /\ BagCardinality(log[handle[s]].obs) < MaxObservations
            /\ points' = [points EXCEPT ![handle[s]] = Observe(@, input)]
            /\ log' = [log EXCEPT ![handle[s]].obs = @ (+) SetToBag({input})]
            /\ err' = [err EXCEPT ![s] = "none"]
            /\ UNCHANGED pc
  /\ UNCHANGED <<exposerVars, var, nextReg, liveRegs, families, paramVars,
                 expo, handle, ex, fam, tmp, arg, warmedIn>>

(***************************************************************************)
(* Specifications                                                          *)
(***************************************************************************)
\* The state after construction, for shards configured by params (setParam).
InitWith(params, sched, exposers) ==
  /\ exposer = [e \in Exposers |-> FALSE]
  /\ registry = [e \in Exposers |-> 0]
  /\ counters = [e \in Exposers |-> [n \in Names |-> 0]]
  /\ gauges = [e \in Exposers |-> [n \in Names |-> 0]]
  /\ histograms = [e \in Exposers |-> [n \in Names |-> 0]]
  /\ endpoint = [e \in Exposers |-> "127.0.0.1:9090"]
  /\ self = [e \in Exposers |-> FALSE]
  /\ epc = [e \in Exposers |-> "cold"]
  /\ eerr = [e \in Exposers |-> "none"]
  /\ attached = [e \in Exposers |-> 0]
  /\ scrape = [e \in Exposers |-> NoScrape]
  /\ var = EmptyVar
  /\ nextReg = 1
  /\ liveRegs = {}
  /\ families = {}
  /\ points = <<>>
  /\ log = <<>>
  /\ \E p \in params :
       /\ kind = [s \in Shards |-> p[s].kind]
       /\ name = [s \in Shards |-> p[s].name]
       /\ label = [s \in Shards |-> p[s].label]
       /\ value = [s \in Shards |-> p[s].value]
       /\ buckets = [s \in Shards |-> p[s].buckets]
  /\ expo = [s \in Shards |-> FALSE]
  /\ handle = [s \in Shards |-> NoPoint]
  /\ ex = [s \in Shards |-> "none"]
  /\ fam = [s \in Shards |-> NoFamily]
  /\ tmp = [s \in Shards |-> 0]
  /\ arg = [s \in Shards |-> 0]
  /\ pc = [s \in Shards |-> "cold"]
  /\ warmedIn = [s \in Shards |-> 0]
  /\ err = [s \in Shards |-> "none"]
  /\ scheduling = sched
  /\ present = exposers

ParamsOf(kinds, names, labels, values, bucketLists) ==
  [kind : kinds \ {"Histogram"}, name : names, label : labels, value : values,
   buckets : {<<>>}]
  \cup [kind : kinds \cap {"Histogram"}, name : names, label : labels, value : values,
        buckets : bucketLists]

AllParams ==
  {p \in [Shards -> ParamsOf(Kinds, Names, LabelNames, {"a"},
                            {<<>>, <<10, 50>>, <<20>>, <<50, 10>>})] :
     p["s1"].name = "m"}

\* Spec: shards of every kind, name and label; the whole life cycle of the Exposer
\* and of the shards.  Warmups and cleanups run one at a time, activations run
\* concurrently with them and with each other.
Init == InitWith(AllParams, "cooperative", {"e1"})

Next ==
  \/ \E e \in Exposers : ExposerWarmup(e)
  \/ \E e \in Exposers : ExposerDrain(e)
  \/ \E e \in Exposers : ExposerStop(e)
  \/ \E e \in Exposers : ExposerRelease(e)
  \/ \E s \in Shards : BaseWarmup(s)
  \/ \E s \in Shards : Lookup(s)
  \/ \E s \in Shards : Create(s)
  \/ \E s \in Shards : Reuse(s)
  \/ \E s \in Shards : Add(s)
  \/ \E s \in Shards : Cleanup(s)
  \/ \E s \in Shards, d \in {-1, 1} : IncrementActivate(s, d)
  \/ \E s \in Shards : CompareExchange(s)
  \/ \E s \in Shards, d \in {-1, 2} : GaugeActivate(s, d)
  \/ \E s \in Shards, d \in {30} : HistogramActivate(s, d)

Spec == Init /\ [][Next]_vars

\* SpecThreads: as Spec, with the shards on threads of their own: the steps of
\* all handlers interleave.
InitThreads == InitWith(AllParams, "threads", {"e1"})

SpecThreads == InitThreads /\ [][Next]_vars

\* SpecMutate: two shards of one kind on one series under an Exposer that stays
\* up, with more inputs; the steps of all handlers interleave.
InitMutate ==
  InitWith({p \in [Shards -> ParamsOf(Kinds, {"m"}, LabelNames, {"a"},
                                      {<<10, 50, 100>>, <<20>>})] :
              p["s1"].kind = p["s2"].kind}, "threads", {"e1"})

NextMutate ==
  \/ \E e \in Exposers : ExposerWarmup(e)
  \/ \E s \in Shards : BaseWarmup(s)
  \/ \E s \in Shards : Lookup(s)
  \/ \E s \in Shards : Create(s)
  \/ \E s \in Shards : Reuse(s)
  \/ \E s \in Shards : Add(s)
  \/ \E s \in Shards : Cleanup(s)
  \/ \E s \in Shards, d \in {-1, 0, 1, 2} : IncrementActivate(s, d)
  \/ \E s \in Shards : CompareExchange(s)
  \/ \E s \in Shards, d \in {-1, 0, 2} : GaugeActivate(s, d)
  \/ \E s \in Shards, d \in {5, 30, 200} : HistogramActivate(s, d)

SpecMutate == InitMutate /\ [][NextMutate]_vars

\* SpecScrape: as SpecMutate with warmups and cleanups one at a time, the whole
\* life cycle of the Exposer, and a listener that serves scrape requests while
\* the shards mutate their points.
InitScrape ==
  InitWith({p \in [Shards -> ParamsOf(Kinds, {"m"}, LabelNames, {"a"}, {<<10, 50>>})] :
              p["s1"].kind = p["s2"].kind /\ p["s1"].label = "l"},
           "cooperative", {"e1"})

NextScrape ==
  \/ \E e \in Exposers : ExposerWarmup(e)
  \/ \E e \in Exposers : ExposerDrain(e)
  \/ \E e \in Exposers : ExposerStop(e)
  \/ \E e \in Exposers : ExposerRelease(e)
  \/ \E e \in Exposers : ScrapeAccept(e)
  \/ \E e \in Exposers : ScrapeRead(e)
  \/ \E e \in Exposers : ScrapeRespond(e)
  \/ \E e \in Exposers : ScrapeDone(e)
  \/ \E s \in Shards : BaseWarmup(s)
  \/ \E s \in Shards : Lookup(s)
  \/ \E s \in Shards : Create(s)
  \/ \E s \in Shards : Reuse(s)
  \/ \E s \in Shards : Add(s)
  \/ \E s \in Shards : Cleanup(s)
  \/ \E s \in Shards, d \in {1} : IncrementActivate(s, d)
  \/ \E s \in Shards : CompareExchange(s)
  \/ \E s \in Shards, d \in {2} : GaugeActivate(s, d)
  \/ \E s \in Shards, d \in {30} : HistogramActivate(s, d)

SpecScrape == InitScrape /\ [][NextScrape]_vars

\* SpecBind: two Exposer shards configured with the same endpoint, and two
\* Increment shards on one Counter; warmups and cleanups run one at a time.
InitBind ==
  InitWith([Shards -> ParamsOf({"Counter"}, {"m"}, {""}, {"a"}, {})],
           "cooperative", {"e1", "e2"})

NextBind ==
  \/ \E e \in Exposers : ExposerWarmup(e)
  \/ \E e \in Exposers : ExposerDrain(e)
  \/ \E e \in Exposers : ExposerStop(e)
  \/ \E e \in Exposers : ExposerRelease(e)
  \/ \E s \in Shards : BaseWarmup(s)
  \/ \E s \in Shards : Lookup(s)
  \/ \E s \in Shards : Create(s)
  \/ \E s \in Shards : Reuse(s)
  \/ \E s \in Shards : Add(s)
  \/ \E s \in Shards : Cleanup(s)
  \/ \E s \in Shards, d \in {1} : IncrementActivate(s, d)
  \/ \E s \in Shards : CompareExchange(s)

SpecBind == InitBind /\ [][NextBind]_vars

\* The host warms the Exposer up once in the life of the program.
ExposerWarmupOnce(e) == nextReg = 1 /\ ExposerWarmup(e)

\* SpecDrain: as SpecScrape for one life of the Exposer, under fair scheduling:
\* the cleanup of the Exposer, once started, keeps running, and the listener
\* keeps serving the request it has accepted.
NextDrain ==
  \/ \E e \in Exposers : ExposerWarmupOnce(e)
  \/ \E e \in Exposers : ExposerDrain(e)
  \/ \E e \in Exposers : ExposerStop(e)
  \/ \E e \in Exposers : ExposerRelease(e)
  \/ \E e \in Exposers : ScrapeAccept(e)
  \/ \E e \in Exposers : ScrapeRead(e)
  \/ \E e \in Exposers : ScrapeRespond(e)
  \/ \E e \in Exposers : ScrapeDone(e)
  \/ \E s \in Shards : BaseWarmup(s)
  \/ \E s \in Shards : Lookup(s)
  \/ \E s \in Shards : Create(s)
  \/ \E s \in Shards : Reuse(s)
  \/ \E s \in Shards : Add(s)
  \/ \E s \in Shards : Cleanup(s)
  \/ \E s \in Shards, d \in {1} : IncrementActivate(s, d)
  \/ \E s \in Shards : CompareExchange(s)
  \/ \E s \in Shards, d \in {2} : GaugeActivate(s, d)
  \/ \E s \in Shards, d \in {30} : HistogramActivate(s, d)

FairDrain ==
  \A e \in Exposers :
    /\ WF_vars(ExposerStop(e))
    /\ WF_vars(ExposerRelease(e))
    /\ WF_vars(ScrapeRead(e))
    /\ WF_vars(ScrapeRespond(e))
    /\ WF_vars(ScrapeDone(e))

SpecDrain == InitScrape /\ [][NextDrain]_vars /\ FairDrain

\* SpecLabels: two shards of one kind and one name, with every combination of
\* Label and Value, warmed up and cleaned up one at a time under an Exposer that
\* stays up.
InitLabels ==
  InitWith({p \in [Shards -> ParamsOf(Kinds, {"m"}, LabelNames, LabelValues, {<<20>>})] :
              p["s1"].kind = p["s2"].kind},
           "cooperative", {"e1"})

NextLabels ==
  \/ \E e \in Exposers : ExposerWarmup(e)
  \/ \E s \in Shards : BaseWarmup(s)
  \/ \E s \in Shards : Lookup(s)
  \/ \E s \in Shards : Create(s)
  \/ \E s \in Shards : Reuse(s)
  \/ \E s \in Shards : Add(s)
  \/ \E s \in Shards : Cleanup(s)

SpecLabels == InitLabels /\ [][NextLabels]_vars

(***************************************************************************)
(* Claims                                                                  *)
(***************************************************************************)
RECURSIVE SumOver(_, _)
SumOver(S, f) ==
  IF S = {} THEN 0 ELSE LET x == CHOOSE y \in S : TRUE IN f[x] + SumOver(S \ {x}, f)

\* The amounts of the Increment calls on point p that have not completed yet.
Pending(p) == SumOver({s \in Shards : pc[s] = "cas" /\ handle[s] = p}, arg)

\* C1: no Increment is lost: at every moment the value of a Counter plus the
\* amounts of the Increment calls still running on it equals the sum of the
\* amounts of all the accepted calls, so once every call has completed the value
\* is that sum, in whatever order the calls interleaved.
C1_NoLostIncrement ==
  \A p \in DOMAIN points :
    p.kind = "Counter" => points[p].val + Pending(p) = log[p].applied

\* C1 witness: two shards increment one Counter; one has loaded the value, the
\* other has completed an Increment since, and the first is about to retry.
C1_Witness ==
  \E s, t \in Shards :
    /\ s # t
    /\ pc[s] = "cas" /\ pc[t] = "warm"
    /\ handle[s] = handle[t]
    /\ handle[s] \in DOMAIN points
    /\ arg[s] > 0
    /\ points[handle[s]].val > tmp[s]
    /\ log[handle[s]].applied = MaxTotal

\* C2: an Increment with a negative input ends in an ActivationError and changes
\* no point; every Counter is created at zero and no step decreases its value.
C2_NegativeRejectedNeverDecreases ==
  [][/\ \A s \in Shards, d \in {-1} :
          IncrementActivate(s, d) =>
            err'[s] = "ActivationError" /\ points' = points /\ pc'[s] = pc[s]
     /\ \A p \in DOMAIN points' :
          p.kind = "Counter" =>
            IF p \in DOMAIN points THEN points'[p].val >= points[p].val
                                   ELSE points'[p].val = 0]_vars

\* C2 witness: a negative Increment has just been rejected on a Counter whose
\* value is positive.
C2_Witness ==
  \E s \in Shards :
    /\ err[s] = "ActivationError"
    /\ handle[s] \in DOMAIN points
    /\ points[handle[s]].val > 0

\* The number of observations in bag b that are at most v.
CountAtMost(b, v) == SumOver({x \in BagToSet(b) : x <= v}, b)

\* The total of the observations in bag b.
TotalOf(b) == SumOver(BagToSet(b), [x \in BagToSet(b) |-> x * b[x]])

\* The exported counts of histogram point p agree with its observations.
C3_Counts(p) ==
  LET st == points[p]
      B == log[p].requested
      obs == log[p].obs
  IN  /\ ValidBoundaries(B)
      /\ Len(st.counts) = Len(B) + 1
      /\ \A i \in 1..Len(B) : CumulativeCount(st, i) = CountAtMost(obs, B[i])
      /\ CumulativeCount(st, Len(B) + 1) = BagCardinality(obs)
      /\ SampleCount(st) = BagCardinality(obs)
      /\ st.sum = TotalOf(obs)

\* C3: for every Histogram point, created for a shard whose Buckets are B: the
\* exported count of the bucket of each boundary b of B is the number of
\* observations v <= b, the +Inf bucket and the sample count are the number of
\* observations, the sum is the total of the observed values, and no step
\* decreases an exported bucket count.
C3_HistogramCounts ==
  /\ [](\A p \in DOMAIN points : p.kind = "Histogram" => C3_Counts(p))
  /\ [][\A p \in DOMAIN points \cap DOMAIN points' :
          p.kind = "Histogram" =>
            \A i \in 1..Len(points[p].counts) :
              CumulativeCount(points'[p], i) >= CumulativeCount(points[p], i)]_vars

\* C3 witness: boundaries [0.1, 0.5, 1.0] and observations 0.05, 0.3, 2.0 give
\* the bucket counts 1, 2, 2, +Inf 3, count 3 and sum 2.35.
C3_Witness ==
  \E p \in DOMAIN points :
    /\ p.kind = "Histogram"
    /\ log[p].requested = <<10, 50, 100>>
    /\ log[p].obs = SetToBag({5, 30, 200})
    /\ CumulativeCount(points[p], 1) = 1
    /\ CumulativeCount(points[p], 2) = 2
    /\ CumulativeCount(points[p], 3) = 2
    /\ CumulativeCount(points[p], 4) = 3
    /\ SampleCount(points[p]) = 3
    /\ points[p].sum = 235

\* C4: the value of a Gauge is the value passed to one of the Set calls made on
\* it (zero before any Set).
C4_GaugeHoldsASetValue ==
  \A p \in DOMAIN points :
    p.kind = "Gauge" =>
      IF log[p].sets = {} THEN points[p].val = 0 ELSE points[p].val \in log[p].sets

\* C4 witness: two shards bound to one Gauge have set different values on it.
C4_Witness ==
  \E s, t \in Shards :
    /\ s # t
    /\ pc[s] = "warm" /\ pc[t] = "warm"
    /\ handle[s] = handle[t]
    /\ handle[s] \in DOMAIN points
    /\ handle[s].kind = "Gauge"
    /\ log[handle[s]].sets = {-1, 0, 2}
    /\ points[handle[s]].val = 0

\* Shard s holds a reference to a point of a live registry.
Bound(s) == pc[s] \in {"warm", "cas"} /\ handle[s] \in DOMAIN points

\* C5: for each LabelSet of a series exactly one point is ever constructed,
\* however the Add calls of the shards interleave, and all the shards that asked
\* for one LabelSet (the same Label and Value) of one series hold that one point.
C5_SinglePointPerLabelSet ==
  /\ \A p \in DOMAIN points : points[p].instance = 1
  /\ \A s, t \in Shards :
       (/\ Bound(s) /\ Bound(t)
        /\ FamilyOf(handle[s]) = FamilyOf(handle[t])
        /\ label[s] = label[t] /\ value[s] = value[t]) => handle[s] = handle[t]

\* C5 witness: two shards hold the same point of a live series, and the point
\* has been used through both.
C5_Witness ==
  \E s, t \in Shards :
    /\ s # t
    /\ Bound(s) /\ Bound(t)
    /\ handle[s] = handle[t]
    /\ points[handle[s]].instance = 1
    /\ points[handle[s]].val = 2
    /\ handle[s].kind = "Counter"

\* The series registered under name n in registry r.
SeriesNamed(r, n) == {f \in families : f.reg = r /\ f.name = n}

\* Shards s and t were both warmed, with the same kind and name, while the
\* Exposer held the registry it holds now.
RegisteredTwice(s, t) ==
  /\ s # t
  /\ pc[s] = "warm" /\ pc[t] = "warm"
  /\ kind[s] = kind[t] /\ name[s] = name[t]
  /\ warmedIn[s] # 0 /\ warmedIn[s] = warmedIn[t]
  /\ \E e \in Exposers : registry[e] = warmedIn[s]

\* C6: two shards of one kind warmed with the same name are bound to the same
\* series, and the Exposer's registry holds exactly one series of that name.
C6_SameNameSameSeries ==
  \A s, t \in Shards :
    RegisteredTwice(s, t) =>
      /\ FamilyOf(handle[s]) = FamilyOf(handle[t])
      /\ Cardinality(SeriesNamed(warmedIn[s], name[s])) = 1

\* Shard s is at the step of its warmup that registers or looks up its name, and
\* the Exposer's registry binds that name to another kind.
RegistersConflictingKind(s) ==
  /\ pc[s] \in {"create", "reuse"}
  /\ registry[ex[s]] # 0
  /\ KindConflict(registry[ex[s]], kind[s], name[s])

\* C7: a warmup whose name the registry binds to another kind fails with a
\* KindConflict and leaves the registry and the three name -> series maps as
\* they were; in every state a registry binds each name to one kind only.
C7_KindConflictRejected ==
  /\ [][\A s \in Shards :
          (RegistersConflictingKind(s) /\ pc'[s] # pc[s]) =>
            /\ pc'[s] = "failed"
            /\ err'[s] = "KindConflict"
            /\ families' = families
            /\ counters' = counters /\ gauges' = gauges /\ histograms' = histograms]_vars
  /\ [](\A f, g \in families : (f.reg = g.reg /\ f.name = g.name) => f.kind = g.kind)

\* C8: all the points of one Histogram series have the same boundaries.
C8_OneBoundarySetPerSeries ==
  \A p, q \in DOMAIN points :
    (p.kind = "Histogram" /\ FamilyOf(p) = FamilyOf(q)) =>
      points[p].bounds = points[q].bounds

\* Shard s is a Histogram whose Buckets are empty or not strictly ascending.
BadBuckets(s) == kind[s] = "Histogram" /\ ~ValidBoundaries(buckets[s])

\* C9: the warmup of a Histogram whose Buckets are empty or not strictly
\* ascending never succeeds, and no step of it adds a series to the registry, an
\* entry to the histograms map or a point.
C9_BadBoundariesCreateNothing ==
  [][\A s \in Shards :
       BadBuckets(s) =>
         /\ pc'[s] # "warm"
         /\ (pc[s] \in {"create", "reuse", "addNew", "addReused"} /\ pc'[s] # pc[s]) =>
              /\ families' = families
              /\ histograms' = histograms
              /\ DOMAIN points' = DOMAIN points]_vars

\* Shard s makes a step of its activate (Increment with an input it accepts).
Mutates(s) ==
  \/ \E d \in {0, 1, 2} : IncrementActivate(s, d)
  \/ \E d \in {-1, 0, 2} : GaugeActivate(s, d)
  \/ \E d \in {5, 30, 200} : HistogramActivate(s, d)

\* C10: an activate of a shard whose point belongs to a released registry ends
\* with InvalidHandle (and so does not touch the point).
C10_InvalidHandleAfterTeardown ==
  [][\A s \in Shards :
       (pc[s] = "warm" /\ Dangling(handle[s]) /\ Mutates(s)) =>
         err'[s] = "InvalidHandle"]_vars

\* The state of the listener constructed together with registry i.
LifeOf(i) ==
  IF i >= nextReg THEN "Uninitialized"
  ELSE IF \E e \in Exposers : exposer[e] /\ attached[e] = i THEN "Listening"
  ELSE "Stopped"

\* C11: a listener only goes from Uninitialized to Listening and from Listening
\* to Stopped; a scrape request is being served only by an Exposer whose listener
\* is Listening, and once the cleanup of an Exposer is over its listener is not.
C11_ExposerLifecycle ==
  /\ [][\A i \in RegIds :
          LifeOf(i)' # LifeOf(i) =>
            <<LifeOf(i), LifeOf(i)'>> \in {<<"Uninitialized", "Listening">>,
                                          <<"Listening", "Stopped">>}]_vars
  /\ [](\A e \in Exposers :
          /\ scrape[e].phase # "idle" => exposer[e] /\ LifeOf(attached[e]) = "Listening"
          /\ epc[e] = "cold" => ~exposer[e])

\* C11 witness: the first listener is Stopped, the second one is Listening and
\* has answered a scrape request.
C11_Witness ==
  /\ LifeOf(1) = "Stopped"
  /\ LifeOf(2) = "Listening"
  /\ \E e \in Exposers : scrape[e].phase = "responded" /\ scrape[e].reg = 2

\* C12: the warmup of an Exposer whose endpoint another listener holds ends in a
\* BindError and changes nothing else: no registry is made, the variable is not
\* published, and the Exposer that holds the endpoint keeps listening; no two
\* listeners ever hold the same endpoint.
C12_BindErrorLeavesNoTrace ==
  /\ [][\A e \in Exposers :
          (BindFails(e) /\ ExposerWarmup(e)) =>
            /\ eerr'[e] = "BindError"
            /\ <<exposer, registry, self, epc, attached, scrape>>' =
                 <<exposer, registry, self, epc, attached, scrape>>
            /\ var' = var
            /\ engineVars' = engineVars]_vars
  /\ [](\A e, o \in Exposers :
          /\ (e # o /\ exposer[e] /\ exposer[o]) => endpoint[e] # endpoint[o]
          /\ eerr[e] = "BindError" => registry[e] = 0 /\ ~self[e] /\ ~exposer[e])

\* C12 witness: the warmup of the second Exposer has failed while the first one
\* listens, holds its registry and has a Counter that was incremented.
C12_Witness ==
  \E e, o \in Exposers :
    /\ eerr[e] = "BindError"
    /\ exposer[o] /\ epc[o] = "listening" /\ registry[o] \in liveRegs
    /\ var.objectValue = o
    /\ \E p \in DOMAIN points : p.reg = registry[o] /\ points[p].val > 0

Held(p, x) ==
  /\ ~x.freed
  /\ p.kind = "Counter" =>
       x.val <= x.at.applied /\ (~x.busy => x.val = x.at.applied)
  /\ p.kind = "Gauge" => x.val \in x.at.sets \cup {0}
  /\ p.kind = "Histogram" =>
       /\ Len(x.counts) = Len(x.bounds) + 1
       /\ \A i \in 1..Len(x.bounds) :
            CumulativeCount(x, i) = CountAtMost(x.at.obs, x.bounds[i])
       /\ SampleCount(x) = BagCardinality(x.at.obs)
       /\ x.sum = TotalOf(x.at.obs)

\* Nothing has been applied to point p since sample x of it was copied.
Final(p, x) == p \in DOMAIN points /\ log[p] = x.at /\ ~x.busy

\* C14: every sample a scrape holds is a state its point has held (for a
\* Histogram, counts and sum of the same observations); a response holds every
\* point the registry of the Exposer had when the request was accepted, and for a
\* point to which nothing was applied since it was copied, its present value.
C14_ScrapeReportsHeldValues ==
  \A e \in Exposers :
    /\ \A p \in DOMAIN scrape[e].snap : Held(p, scrape[e].snap[p])
    /\ scrape[e].phase = "responded" =>
         /\ scrape[e].existing \subseteq DOMAIN scrape[e].snap
         /\ \A p \in DOMAIN scrape[e].snap :
              Final(p, scrape[e].snap[p]) =>
                /\ scrape[e].snap[p].val = points[p].val
                /\ scrape[e].snap[p].counts = points[p].counts
                /\ scrape[e].snap[p].sum = points[p].sum

\* C14 witness: a Counter with the label l = a was incremented three times by 1,
\* and the response of a scrape reports 3 for it.
C14_Witness ==
  \E e \in Exposers :
    /\ scrape[e].phase = "responded"
    /\ \E p \in DOMAIN scrape[e].snap :
         /\ p.kind = "Counter" /\ p.labels = {<<"l", "a">>}
         /\ Final(p, scrape[e].snap[p])
         /\ log[p].applied = 3
         /\ scrape[e].snap[p].val = 3

\* Shard s is at the registration of its name in a live registry while shard t,
\* of the same kind and name and on the same Exposer, is inside its warmup too.
RegistersWith(s, t) ==
  /\ s # t
  /\ pc[s] = "create" /\ registry[ex[s]] \in liveRegs
  /\ pc[t] \in {"lookup", "create", "reuse", "addNew", "addReused"}
  /\ ex[t] = ex[s] /\ kind[t] = kind[s] /\ name[t] = name[s]

\* C15: a registration that runs concurrently with another registration of the
\* same name and kind completes: after it the registry holds exactly one series
\* of that name, the map of the Exposer holds that series under the name, and
\* the shard goes on to bind to it.
C15_ConcurrentRegistration ==
  [][\A s, t \in Shards :
       (RegistersWith(s, t) /\ pc'[s] # pc[s]) =>
         /\ pc'[s] = "addNew"
         /\ fam'[s] = Family(registry[ex[s]], kind[s], name[s])
         /\ SeriesNamed(registry[ex[s]], name[s])' = {fam'[s]}
         /\ Cache(kind[s], ex[s])'[name[s]] = registry[ex[s]]]_vars

\* C16: the teardown of an Exposer releases its Registry only once the listener
\* is stopped and serves no request, and a scrape in progress is always over a
\* Registry that is still alive: no point it has copied was already freed.
C16_ListenerStopsBeforeRelease ==
  /\ [][\A e \in Exposers :
          (registry[e] # 0 /\ registry'[e] = 0) =>
            ~exposer[e] /\ scrape[e].phase = "idle"]_vars
  /\ [](\A e \in Exposers :
          scrape[e].phase # "idle" =>
            /\ scrape[e].reg \in liveRegs
            /\ \A p \in DOMAIN scrape[e].snap : ~scrape[e].snap[p].freed)

\* A teardown has begun while a scrape that has copied a point is still being
\* served.
C16_Witness ==
  \E e \in Exposers :
    /\ epc[e] = "draining"
    /\ scrape[e].phase = "collecting"
    /\ scrape[e].snap # <<>>

\* The Prometheus.Exposer variable refers to an Exposer that has been warmed up
\* and not yet cleaned up.
ExposerIsUp ==
  /\ var.valueType = "Object"
  /\ epc[var.objectValue] = "listening"
  /\ registry[var.objectValue] \in liveRegs

\* C17: a metric shard's warmup goes past Base::warmup only when the variable
\* refers to an Exposer that is warmed up and not cleaned up; otherwise it fails
\* with WarmupError and leaves the families and points as they were, and no
\* warmup ever dereferences an absent registry.
C17_WarmupNeedsLiveExposer ==
  /\ [][\A s \in Shards :
          (pc[s] = "cold" /\ pc'[s] # "cold" /\ ~ExposerIsUp) =>
            /\ pc'[s] = "failed" /\ err'[s] = "WarmupError"
            /\ families' = families /\ points' = points]_vars
  /\ [](\A s \in Shards : err[s] # "NullRegistry")

\* The LabelSet the label policy gives a shard: empty when Label is empty,
\* whatever Value is, else the one pair Label -> Value.
PolicyLabels(s) == IF label[s] = "" THEN {} ELSE {<<label[s], value[s]>>}

CachedRegistries(e) ==
  {m[e][n] : m \in {counters, gauges, histograms}, n \in Names} \ {0}

\* C19: while an Exposer is up, every entry of its name -> series maps refers
\* to a series of its current Registry, also after it was cleaned up and warmed
\* up again.
C19_CachesFollowRegistry ==
  \A e \in Exposers :
    epc[e] = "listening" => CachedRegistries(e) \subseteq {registry[e]}

\* The references on the Prometheus.Exposer variable that shards hold.
Holders == Cardinality({s \in Shards : expo[s]}) + Cardinality({e \in Exposers : self[e]})

\* C20: the reference count of the Prometheus.Exposer variable is the number
\* of shards that hold a reference, so no reference is released twice or never;
\* a shard that has been cleaned up holds no reference and no point, and each
\* cleanup of a shard that holds a reference releases exactly that one.
C20_ReferencesReleasedOnce ==
  /\ [](/\ var.refcount = Holders
        /\ \A s \in Shards : pc[s] = "cold" => ~expo[s] /\ handle[s] = NoPoint
        /\ \A e \in Exposers : epc[e] = "cold" => ~self[e])
  /\ [][/\ \A s \in Shards :
             (expo[s] /\ ~expo'[s]) =>
               var'.refcount = var.refcount - 1 /\ handle'[s] = NoPoint
        /\ \A e \in Exposers :
             (self[e] /\ ~self'[e]) => var'.refcount = var.refcount - 1]_vars

\* Every shard has been cleaned up after a shard had obtained a point, and the
\* one reference left on the variable is that of the Exposer that is up.
C20_Witness ==
  /\ \A s \in Shards : pc[s] = "cold"
  /\ points # <<>>
  /\ \E e \in Exposers : self[e] /\ epc[e] = "listening"
  /\ var.refcount = 1

=============================================================================
